---- MODULE Spec2Model ----
(***************************************************************************)
(* RestApi.rest_core of app/api/rest_api.py: the single /api/rest endpoint *)
(* that authorizes the caller, reads the JSON body, pops the 'index'       *)
(* discriminator, looks the (verb, index) pair up in the options table and *)
(* either calls the registered rest_svc operation or falls back to         *)
(* rest_svc.display_objects.                                               *)
(*                                                                         *)
(* Every request is a cooperative task; its locals (access, data, index,   *)
(* options) are per-request variables. The state shared between requests   *)
(* is the object store behind rest_svc.                                    *)
(***************************************************************************)
EXTENDS Naturals, Sequences, FiniteSets

\* Number of request tasks that may be in flight at the same time.
MaxInFlight == 2

Slots == 1 .. MaxInFlight

Methods == {"GET", "POST", "PUT", "DELETE"}

\* The discriminator values declared by @request_schema (CoreRequest).
SchemaMapping ==
    {"adversaries", "operations", "agents", "abilities", "sources", "planners", "links"}

\* One entry of the options table: options[verb][index] = lambda d: rest_svc.op(...).
\* scoped: the lambda also passes the request's access dict;
\* style : how the payload reaches the operation (d, **d or Link.load(d)).
Entry(v, i, o, sc, st) == [verb |-> v, index |-> i, op |-> o, scoped |-> sc, style |-> st]

DeleteRoutes ==
    { Entry("DELETE", "agents", "delete_agent", FALSE, "dict"),
      Entry("DELETE", "operations", "delete_operation", FALSE, "dict"),
      Entry("DELETE", "abilities", "delete_ability", FALSE, "dict"),
      Entry("DELETE", "adversaries", "delete_adversary", FALSE, "dict") }

PutRoutes ==
    { Entry("PUT", "adversaries", "persist_adversary", FALSE, "dict"),
      Entry("PUT", "abilities", "persist_ability", FALSE, "dict"),
      Entry("PUT", "sources", "persist_source", FALSE, "dict"),
      Entry("PUT", "planners", "update_planner", FALSE, "dict"),
      Entry("PUT", "agents", "update_agent_data", FALSE, "dict"),
      Entry("PUT", "chain", "update_chain_data", FALSE, "dict"),
      Entry("PUT", "operations", "create_operation", TRUE, "dict"),
      Entry("PUT", "schedule", "create_schedule", TRUE, "dict"),
      Entry("PUT", "link", "apply_potential_link", FALSE, "load") }

PostRoutes ==
    { Entry("POST", "operation_report", "display_operation_report", FALSE, "dict"),
      Entry("POST", "result", "display_result", FALSE, "dict"),
      Entry("POST", "contact", "download_contact_report", FALSE, "dict"),
      Entry("POST", "configuration", "update_config", FALSE, "dict"),
      Entry("POST", "link", "get_potential_links", FALSE, "kwargs"),
      Entry("POST", "operation", "update_operation", FALSE, "kwargs"),
      Entry("POST", "task", "task_agent_with_ability", FALSE, "kwargs") }

\* A variant of BuildOptions in which the table depends on the caller: the
\* DELETE routes are only registered for a caller whose scope holds "red".
BuildOptionsPerCaller(acc) ==
    IF \E k \in 1 .. Len(acc) : acc[k] = "red"
    THEN DeleteRoutes \cup PutRoutes \cup PostRoutes
    ELSE PutRoutes \cup PostRoutes

\* options = dict(DELETE=dict(...), PUT=dict(...), POST=dict(...)), built inline
\* by every call of rest_core. There is no GET entry.
BuildOptions(acc) == DeleteRoutes \cup PutRoutes \cup PostRoutes

Registered(opts, m, i) == \E rt \in opts : rt.verb = m /\ rt.index = i

HandlerOf(opts, m, i) == CHOOSE rt \in opts : rt.verb = m /\ rt.index = i

Fallback == "display_objects"

\* A variant of Resolve that looks the index up in the PUT table whatever the verb.
ResolvePutOnly(opts, m, i) ==
    IF ~Registered(opts, "PUT", i) THEN Fallback ELSE HandlerOf(opts, "PUT", i).op

\* A variant of Resolve that looks the index up in the tables of all verbs.
ResolveAnyVerb(opts, m, i) ==
    IF \A rt \in opts : rt.index # i
    THEN Fallback
    ELSE (CHOOSE rt \in opts : rt.index = i).op

\* A variant of Resolve that serves a GET from the POST table.
ResolveGetAsPost(opts, m, i) ==
    LET v == IF m = "GET" THEN "POST" ELSE m
    IN IF ~Registered(opts, v, i) THEN Fallback ELSE HandlerOf(opts, v, i).op

\* if index not in options[request.method]: display_objects, else the handler.
Resolve(opts, m, i) ==
    IF ~Registered(opts, m, i) THEN Fallback ELSE HandlerOf(opts, m, i).op

----------------------------------------------------------------------------
(* Dictionaries *)

\* A variant of Pop that reads the key and leaves the dictionary as it was.
PopNothing(d, k) == d

\* data.pop(k): the dictionary without key k.
Pop(d, k) == [f \in (DOMAIN d) \ {k} |-> d[f]]

\* {**a, **b}: on a shared key the right operand wins.
Merge(a, b) == [f \in (DOMAIN a) \cup (DOMAIN b) |-> IF f \in DOMAIN b THEN b[f] ELSE a[f]]

\* A variant of Search with the operands of the merge swapped.
SearchDataWins(d, acc) == Merge(acc, d)

\* search = {**data, **access}
Search(d, acc) == Merge(d, acc)

EmptyDict == [f \in {} |-> ""]

----------------------------------------------------------------------------
(* Callers, scopes and the object store behind rest_svc *)

Callers == {"red_user", "blue_user", "anonymous"}

\* The callers check_authorization lets through.
ValidCallers == {"red_user", "blue_user"}

\* auth_svc.get_permissions(request), after tuple(...).
Permissions(c) ==
    IF c = "red_user" THEN <<"red">> ELSE IF c = "blue_user" THEN <<"blue">> ELSE <<>>

Tags(scope) == {scope[k] : k \in 1 .. Len(scope)}

Entity(k, i, a) == [kind |-> k, id |-> i, access |-> a]

DeleteKinds == {"agents", "operations", "abilities", "adversaries"}

\* The objects present when the server starts serving.
InitialStore == {Entity(k, "s1", "red") : k \in DeleteKinds}

\* An object matches search criteria when every criterion it knows agrees.
Match(e, crit) ==
    /\ "id" \in DOMAIN crit => e.id = crit["id"]
    /\ "access" \in DOMAIN crit => e.access \in Tags(crit["access"])

----------------------------------------------------------------------------
(* Results, exceptions and responses *)

Result(t, items) == [tag |-> t, items |-> items]

NoResult == Result("none", {})

\* e.messages of a marshmallow ValidationError: {field: [reason, ...]}.
Messages == {[field |-> "id", reasons |-> <<"Missing data for required field.">>]}

Returned(res, st, rem) ==
    [kind |-> "return", result |-> res, messages |-> {}, store |-> st, removed |-> rem]

Raised(k, msgs, st) ==
    [kind |-> k, result |-> NoResult, messages |-> msgs, store |-> st, removed |-> FALSE]

NoResponse == [status |-> 0, tag |-> "none", items |-> {}, errors |-> {}]

\* web.json_response(result)
JsonResponse(res) == [status |-> 200, tag |-> res.tag, items |-> res.items, errors |-> {}]

\* web.HTTPBadRequest(content_type='application/json', text=json.dumps(e.messages))
HTTPBadRequest(msgs) == [status |-> 400, tag |-> "errors", items |-> {}, errors |-> msgs]

\* The answer of check_authorization to a caller without valid credentials.
HTTPUnauthorized == [status |-> 401, tag |-> "unauthorized", items |-> {}, errors |-> {}]

\* A variant of OnException that answers 400 to every exception.
OnExceptionAll400(kind, msgs) ==
    [pc |-> "Invalid", response |-> HTTPBadRequest(msgs), logged |-> FALSE]

\* A variant of OnException that logs every exception.
OnExceptionAllLogged(kind, msgs) ==
    [pc |-> "Failed", response |-> NoResponse, logged |-> TRUE]

\* A variant of OnException that, instead of logging, starts the body of
\* rest_core again.
OnExceptionRetry(kind, msgs) ==
    IF kind = "ValidationError"
    THEN [pc |-> "Invalid", response |-> HTTPBadRequest(msgs), logged |-> FALSE]
    ELSE [pc |-> "Authorized", response |-> NoResponse, logged |-> FALSE]

\* The except clauses of rest_core: a ValidationError becomes HTTPBadRequest with
\* e.messages, any other exception is logged and rest_core returns None.
OnException(kind, msgs) ==
    IF kind = "ValidationError"
    THEN [pc |-> "Invalid", response |-> HTTPBadRequest(msgs), logged |-> FALSE]
    ELSE [pc |-> "Failed", response |-> NoResponse, logged |-> TRUE]

----------------------------------------------------------------------------
(* The operations of rest_svc, as far as rest_core depends on them *)

\* A variant of DeleteOutcome that raises when no object matches the criteria.
DeleteOutcomeStrict(kind, crit, st) ==
    IF \E e \in st : e.kind = kind /\ Match(e, crit)
    THEN Returned(Result("deleted", {}), {e \in st : ~(e.kind = kind /\ Match(e, crit))}, TRUE)
    ELSE Raised("Exception", {}, st)

\* rest_svc.delete_agent / delete_operation / delete_ability / delete_adversary:
\* removes the objects of that kind matching the payload and acknowledges.
DeleteOutcome(kind, crit, st) ==
    Returned(Result("deleted", {}),
             {e \in st : ~(e.kind = kind /\ Match(e, crit))},
             \E e \in st : e.kind = kind /\ Match(e, crit))

\* rest_svc.create_schedule(access, d): stores schedule d['id'] under the
\* caller's scope, or fails.
CreateScheduleOutcomes(scope, d, st) ==
    (IF "id" \in DOMAIN d /\ scope # <<>>
     THEN {Returned(Result("created", {}), st \cup {Entity("schedule", d["id"], scope[1])}, FALSE)}
     ELSE {})
    \cup {Raised("ValidationError", m, st) : m \in (SUBSET Messages) \ {{}}}
    \cup {Raised("Exception", {}, st)}

\* Any other registered operation: returns a result or raises.
OpaqueOutcomes(op, st) ==
    {Returned(Result(op, {}), st, FALSE)}
    \cup {Raised("ValidationError", m, st) : m \in (SUBSET Messages) \ {{}}}
    \cup {Raised("Exception", {}, st)}

\* rest_svc.display_objects(index, search): the objects of kind index that
\* match the search criteria, or an exception of the query service.
DisplayObjectsOutcomes(kind, crit, st) ==
    {Returned(Result("listing", {e \in st : e.kind = kind /\ Match(e, crit)}), st, FALSE)}
    \cup {Raised("ValidationError", m, st) : m \in (SUBSET Messages) \ {{}}}
    \cup {Raised("Exception", {}, st)}

DeleteOps == {"delete_agent", "delete_operation", "delete_ability", "delete_adversary"}

\* The operations whose lambda unpacks the payload into named arguments (**d).
KwargsOps == {rt.op : rt \in {e \in PostRoutes : e.style = "kwargs"}}

\* The named arguments an operation called with **d cannot do without. Only
\* those of the task operation are known (ability_id and paw); none is assumed
\* for the other two, whose calls may raise all the same.
RequiredFields(op) ==
    IF op = "task_agent_with_ability" THEN {"ability_id", "paw"} ELSE {}

\* A variant of UnpackOutcomes that reports the missing arguments as a
\* ValidationError with a message per field.
UnpackOutcomesValidated(op, d, st) ==
    IF RequiredFields(op) \subseteq DOMAIN d
    THEN OpaqueOutcomes(op, st)
    ELSE {Raised("ValidationError", Messages, st)}

\* self.rest_svc.op(**d): without a required argument the call itself raises
\* TypeError, before the operation runs.
UnpackOutcomes(op, d, st) ==
    IF RequiredFields(op) \subseteq DOMAIN d
    THEN OpaqueOutcomes(op, st)
    ELSE {Raised("Exception", {}, st)}

\* What the awaited call c may do on store st.
CallOutcomes(c, st) ==
    IF c.op = Fallback THEN DisplayObjectsOutcomes(c.index, c.arg, st)
    ELSE IF c.op \in DeleteOps THEN {DeleteOutcome(c.index, c.arg, st)}
    ELSE IF c.op \in KwargsOps THEN UnpackOutcomes(c.op, c.arg, st)
    ELSE IF c.op = "create_schedule" THEN CreateScheduleOutcomes(c.scope, c.arg, st)
    ELSE OpaqueOutcomes(c.op, st)

\* A variant of MakeCall in which a scoped lambda takes the scope the payload
\* names, when it names one, instead of the local access.
MakeCallPayloadScope(opts, m, i, d, acc, target) ==
    IF target = Fallback
    THEN [op |-> Fallback, index |-> i, arg |-> Search(d, acc), scope |-> <<>>]
    ELSE [op |-> target, index |-> i, arg |-> d,
          scope |-> IF \E rt \in opts : rt.op = target /\ rt.scoped
                    THEN IF "access" \in DOMAIN d THEN d["access"] ELSE acc["access"]
                    ELSE <<>>]

\* The call rest_core makes for target op: display_objects(index, search) or
\* options[request.method][index](data), with access for the scoped lambdas.
MakeCall(opts, m, i, d, acc, target) ==
    IF target = Fallback
    THEN [op |-> Fallback, index |-> i, arg |-> Search(d, acc), scope |-> <<>>]
    ELSE [op |-> target, index |-> i, arg |-> d,
          scope |-> IF \E rt \in opts : rt.op = target /\ rt.scoped THEN acc["access"] ELSE <<>>]

----------------------------------------------------------------------------
(* Requests *)

JsonObject(o) == [json |-> TRUE, obj |-> o]

\* A body request.json() cannot turn into a dictionary.
NotJson == [json |-> FALSE, obj |-> EmptyDict]

Request(m, c, b) == [method |-> m, caller |-> c, body |-> b]

Indexes ==
    SchemaMapping \cup {rt.index : rt \in BuildOptions(<<>>)} \cup {"unknown_kind"}

\* The fields a payload carries besides 'index'.
Payloads ==
    { EmptyDict, [id |-> "s1"], [access |-> <<"red">>], [id |-> "s1", access |-> <<"red">>] }

WithIndex(p, i) == Merge(p, [index |-> i])

\* Every verb with every discriminator, from one authorized caller.
AllPairs ==
    {Request(m, "red_user", JsonObject([index |-> i, id |-> "s1"])) : m \in Methods, i \in Indexes}

\* Every caller, verb and payload on three discriminators: one of the schema
\* mapping with routes, one outside it with a route, one known nowhere.
Variety ==
    {Request(m, c, JsonObject(WithIndex(p, i))) :
        m \in Methods, c \in ValidCallers, i \in {"agents", "schedule", "unknown_kind"},
        p \in Payloads}

Specials ==
    { Request("GET", "anonymous", JsonObject([index |-> "agents"])),
      Request("DELETE", "anonymous", JsonObject([index |-> "agents", id |-> "s1"])),
      Request("GET", "red_user", JsonObject(EmptyDict)),
      Request("POST", "blue_user", JsonObject([id |-> "s1"])),
      Request("PUT", "red_user", NotJson),
      Request("POST", "red_user",
              JsonObject([index |-> "task", ability_id |-> "a1", paw |-> "p1"])),
      Request("POST", "red_user", JsonObject([index |-> "task", ability_id |-> "a1"])) }

Requests == AllPairs \cup Variety \cup Specials

\* The requests used when several are in flight together.
ConcurrentRequests ==
    { Request("PUT", "red_user", JsonObject([index |-> "schedule", id |-> "s1"])),
      Request("GET", "blue_user", JsonObject([index |-> "schedule", access |-> <<"red">>])),
      Request("DELETE", "red_user", JsonObject([index |-> "agents", id |-> "s1"])),
      Request("POST", "blue_user", JsonObject([index |-> "task", id |-> "s1"])),
      Request("GET", "anonymous", JsonObject([index |-> "agents"])),
      Request("GET", "red_user", JsonObject(EmptyDict)) }

----------------------------------------------------------------------------
VARIABLES
    pc,        \* pc[r]: the dispatcher state request r is in
    steps,     \* steps[r]: the dispatcher states r has gone through
    method,    \* request.method
    caller,    \* the identity behind the request's credentials
    body,      \* the request body
    access,    \* local access: dict(access=tuple(permissions))
    data,      \* local data
    index,     \* local index
    options,   \* local options
    calls,     \* the rest_svc calls made by r, in order
    result,    \* the value the awaited call returned
    removed,   \* whether r's call removed an object from the store
    response,  \* what the client gets
    logged,    \* whether self.log.error was called for r
    raised,    \* the exception that reached the except clauses of rest_core, if any
    store,     \* the objects behind rest_svc
    firstDel   \* per kind: the DELETE that removed its object, and its response

vars == <<pc, steps, method, caller, body, access, data, index, options, calls,
          result, removed, response, logged, raised, store, firstDel>>

NoException == [kind |-> "none", messages |-> {}]

NoDelete == [done |-> FALSE, data |-> EmptyDict, response |-> NoResponse]

Init ==
    /\ pc = [r \in Slots |-> "Idle"]
    /\ steps = [r \in Slots |-> <<>>]
    /\ method = [r \in Slots |-> "GET"]
    /\ caller = [r \in Slots |-> "anonymous"]
    /\ body = [r \in Slots |-> NotJson]
    /\ access = [r \in Slots |-> [access |-> <<>>]]
    /\ data = [r \in Slots |-> EmptyDict]
    /\ index = [r \in Slots |-> ""]
    /\ options = [r \in Slots |-> {}]
    /\ calls = [r \in Slots |-> <<>>]
    /\ result = [r \in Slots |-> NoResult]
    /\ removed = [r \in Slots |-> FALSE]
    /\ response = [r \in Slots |-> NoResponse]
    /\ logged = [r \in Slots |-> FALSE]
    /\ raised = [r \in Slots |-> NoException]
    /\ store = InitialStore
    /\ firstDel = [k \in DeleteKinds |-> NoDelete]

\* The request moves to state s (through the states named in via).
Goto(r, via, s) ==
    /\ pc' = [pc EXCEPT ![r] = s]
    /\ steps' = [steps EXCEPT ![r] = @ \o via \o <<s>>]

\* An exception of the given kind reaches the except clauses of rest_core.
Raise(r, kind, msgs) ==
    LET x == OnException(kind, msgs) IN
    /\ Goto(r, <<>>, x.pc)
    /\ response' = [response EXCEPT ![r] = x.response]
    /\ logged' = [logged EXCEPT ![r] = x.logged]
    /\ raised' = [raised EXCEPT ![r] = [kind |-> kind, messages |-> msgs]]

\* A request arrives at /api/rest.
Receive(r, inputs) ==
    /\ pc[r] = "Idle"
    /\ \E q \in inputs :
        /\ method' = [method EXCEPT ![r] = q.method]
        /\ caller' = [caller EXCEPT ![r] = q.caller]
        /\ body' = [body EXCEPT ![r] = q.body]
    /\ Goto(r, <<>>, "Received")
    /\ UNCHANGED <<access, data, index, options, calls, result, removed, response,
                   logged, raised, store, firstDel>>

\* @check_authorization: rest_core runs only for a caller with valid credentials.
CheckAuthorization(r) ==
    /\ pc[r] = "Received"
    /\ IF caller[r] \in ValidCallers
       THEN /\ Goto(r, <<"Authorizing">>, "Authorized")
            /\ UNCHANGED response
       ELSE /\ Goto(r, <<"Authorizing">>, "Rejected")
            /\ response' = [response EXCEPT ![r] = HTTPUnauthorized]
    /\ UNCHANGED <<method, caller, body, access, data, index, options, calls, result,
                   removed, logged, raised, store, firstDel>>

\* access = dict(access=tuple(await self.auth_svc.get_permissions(request)))
GetPermissions(r) ==
    /\ pc[r] = "Authorized"
    /\ \/ /\ access' = [access EXCEPT ![r] = [access |-> Permissions(caller[r])]]
          /\ Goto(r, <<>>, "Decoding")
          /\ UNCHANGED <<response, logged, raised>>
       \/ /\ Raise(r, "Exception", {})
          /\ UNCHANGED access
    /\ UNCHANGED <<method, caller, body, data, index, options, calls, result, removed,
                   store, firstDel>>

\* A variant of Decode that reads the body of a request the gate has not passed yet.
DecodeUngated(r) ==
    /\ pc[r] \in {"Received", "Decoding"}
    /\ body[r].json /\ "index" \in DOMAIN body[r].obj
    /\ data' = [data EXCEPT ![r] = Pop(body[r].obj, "index")]
    /\ index' = [index EXCEPT ![r] = body[r].obj["index"]]
    /\ Goto(r, <<"Decoded">>, "Routing")
    /\ UNCHANGED <<method, caller, body, access, options, calls, result, removed,
                   response, logged, raised, store, firstDel>>

\* A variant of Decode that rejects an index outside the schema mapping with a
\* ValidationError.
DecodeAgainstSchema(r) ==
    /\ pc[r] = "Decoding"
    /\ IF body[r].json /\ "index" \in DOMAIN body[r].obj
       THEN IF body[r].obj["index"] \in SchemaMapping
            THEN /\ data' = [data EXCEPT ![r] = Pop(body[r].obj, "index")]
                 /\ index' = [index EXCEPT ![r] = body[r].obj["index"]]
                 /\ Goto(r, <<"Decoded">>, "Routing")
                 /\ UNCHANGED <<response, logged, raised>>
            ELSE /\ Raise(r, "ValidationError", Messages)
                 /\ UNCHANGED <<data, index>>
       ELSE /\ Raise(r, "Exception", {})
            /\ UNCHANGED <<data, index>>
    /\ UNCHANGED <<method, caller, body, access, options, calls, result, removed,
                   store, firstDel>>

\* data = dict(await request.json()); index = data.pop('index')
Decode(r) ==
    /\ pc[r] = "Decoding"
    /\ IF body[r].json /\ "index" \in DOMAIN body[r].obj
       THEN /\ data' = [data EXCEPT ![r] = Pop(body[r].obj, "index")]
            /\ index' = [index EXCEPT ![r] = body[r].obj["index"]]
            /\ Goto(r, <<"Decoded">>, "Routing")
            /\ UNCHANGED <<response, logged, raised>>
       ELSE /\ Raise(r, "Exception", {})
            /\ UNCHANGED <<data, index>>
    /\ UNCHANGED <<method, caller, body, access, options, calls, result, removed,
                   store, firstDel>>

\* A variant of Routing in which data, index and access are attributes shared by
\* the requests in flight: r routes with the values some decoded request left.
RoutingSharedLocals(r) ==
    /\ pc[r] = "Routing"
    /\ \E q \in {x \in Slots : Len(steps[x]) >= 5 /\ steps[x][5] = "Decoded"} :
          LET opts == BuildOptions(access[q]["access"])
              target == Resolve(opts, method[r], index[q])
          IN /\ options' = [options EXCEPT ![r] = opts]
             /\ calls' = [calls EXCEPT ![r] =
                    Append(@, MakeCall(opts, method[r], index[q], data[q], access[q], target))]
             /\ Goto(r, <<>>, IF target = Fallback THEN "FallbackExecuting" ELSE "Executing")
    /\ UNCHANGED <<method, caller, body, access, data, index, result, removed, response,
                   logged, raised, store, firstDel>>

\* options = dict(...); the lookup of index in options[request.method]; the call
\* of display_objects or of the registered lambda.
Routing(r) ==
    /\ pc[r] = "Routing"
    /\ LET opts == BuildOptions(access[r]["access"])
           target == Resolve(opts, method[r], index[r])
       IN /\ options' = [options EXCEPT ![r] = opts]
          /\ calls' = [calls EXCEPT ![r] =
                 Append(@, MakeCall(opts, method[r], index[r], data[r], access[r], target))]
          /\ Goto(r, <<>>, IF target = Fallback THEN "FallbackExecuting" ELSE "Executing")
    /\ UNCHANGED <<method, caller, body, access, data, index, result, removed, response,
                   logged, raised, store, firstDel>>

\* The awaited call returns or raises.
Await(r) ==
    \E o \in CallOutcomes(calls[r][Len(calls[r])], store) :
        /\ store' = o.store
        /\ removed' = [removed EXCEPT ![r] = o.removed]
        /\ IF o.kind = "return"
           THEN /\ result' = [result EXCEPT ![r] = o.result]
                /\ Goto(r, <<>>, "Encoding")
                /\ UNCHANGED <<response, logged, raised>>
           ELSE /\ Raise(r, o.kind, o.messages)
                /\ UNCHANGED result

\* await options[request.method][index](data)
Execute(r) ==
    /\ pc[r] = "Executing"
    /\ Await(r)
    /\ UNCHANGED <<method, caller, body, access, data, index, options, calls, firstDel>>

\* await self.rest_svc.display_objects(index, search)
FallbackExecute(r) ==
    /\ pc[r] = "FallbackExecuting"
    /\ Await(r)
    /\ UNCHANGED <<method, caller, body, access, data, index, options, calls, firstDel>>

\* return web.json_response(...)
Respond(r) ==
    /\ pc[r] = "Encoding"
    /\ response' = [response EXCEPT ![r] = JsonResponse(result[r])]
    /\ Goto(r, <<>>, "Responding")
    /\ firstDel' = IF removed[r] /\ index[r] \in DeleteKinds
                   THEN [firstDel EXCEPT ![index[r]] =
                            [done |-> TRUE, data |-> data[r], response |-> JsonResponse(result[r])]]
                   ELSE firstDel
    /\ UNCHANGED <<method, caller, body, access, data, index, options, calls, result,
                   removed, logged, raised, store>>

Terminal == {"Responding", "Rejected", "Invalid", "Failed"}

\* The task of request r ends; its locals are gone.
Finish(r) ==
    /\ pc[r] \in Terminal
    /\ pc' = [pc EXCEPT ![r] = "Idle"]
    /\ steps' = [steps EXCEPT ![r] = <<>>]
    /\ method' = [method EXCEPT ![r] = "GET"]
    /\ caller' = [caller EXCEPT ![r] = "anonymous"]
    /\ body' = [body EXCEPT ![r] = NotJson]
    /\ access' = [access EXCEPT ![r] = [access |-> <<>>]]
    /\ data' = [data EXCEPT ![r] = EmptyDict]
    /\ index' = [index EXCEPT ![r] = ""]
    /\ options' = [options EXCEPT ![r] = {}]
    /\ calls' = [calls EXCEPT ![r] = <<>>]
    /\ result' = [result EXCEPT ![r] = NoResult]
    /\ removed' = [removed EXCEPT ![r] = FALSE]
    /\ response' = [response EXCEPT ![r] = NoResponse]
    /\ logged' = [logged EXCEPT ![r] = FALSE]
    /\ raised' = [raised EXCEPT ![r] = NoException]
    /\ UNCHANGED <<store, firstDel>>

Step(r, inputs) ==
    \/ Receive(r, inputs)
    \/ CheckAuthorization(r)
    \/ GetPermissions(r)
    \/ Decode(r)
    \/ Routing(r)
    \/ Execute(r)
    \/ FallbackExecute(r)
    \/ Respond(r)
    \/ Finish(r)

\* One request at a time, drawn from all of Requests.
Next == Step(1, Requests)

Spec == Init /\ [][Next]_vars

\* Up to MaxInFlight requests interleaving at their await points.
NextConc == \E r \in Slots : Step(r, ConcurrentRequests)

SpecConc == Init /\ [][NextConc]_vars

\* The steps of request r that follow its arrival.
Progress(r) ==
    \/ CheckAuthorization(r)
    \/ GetPermissions(r)
    \/ Decode(r)
    \/ Routing(r)
    \/ Execute(r)
    \/ FallbackExecute(r)
    \/ Respond(r)

\* The requests in flight together when progress is at stake: one per way a
\* request can end.
LiveRequests ==
    { Request("PUT", "red_user", JsonObject([index |-> "schedule", id |-> "s1"])),
      Request("GET", "blue_user", JsonObject([index |-> "schedule", access |-> <<"red">>])),
      Request("PUT", "blue_user", JsonObject([index |-> "link", id |-> "s1"])),
      Request("GET", "anonymous", JsonObject([index |-> "agents"])),
      Request("GET", "red_user", JsonObject(EmptyDict)) }

NextLive == \E r \in Slots : Step(r, LiveRequests)

\* The event loop resumes every task that can run, and every awaited
\* collaborator call returns or raises.
SpecLive == Init /\ [][NextLive]_vars /\ \A r \in Slots : WF_vars(Progress(r))

----------------------------------------------------------------------------
(* Properties *)

\* Request r has been in dispatcher state s.
Has(r, s) == \E k \in 1 .. Len(steps[r]) : steps[r][k] = s

\* The lookup of r's (verb, index) pair has been made and a call started.
Routed(r) == Has(r, "Executing") \/ Has(r, "FallbackExecuting")

\* The routing table as written in rest_core.
Table == DeleteRoutes \cup PutRoutes \cup PostRoutes

InTable(m, i) == \E rt \in Table : rt.verb = m /\ rt.index = i

\* The discriminator the body of r carries, if any.
HasIndex(r) == body[r].json /\ "index" \in DOMAIN body[r].obj

\* C1: a routed request whose (verb, index) pair is registered has made exactly
\* one call: the rest_svc operation registered for that pair, with the payload;
\* it has called no other operation and not display_objects.
C1_RegisteredPairInvokesItsHandlerOnce ==
    \A r \in Slots : \A rt \in Table :
        (Routed(r) /\ rt.verb = method[r] /\ rt.index = index[r])
            => /\ Len(calls[r]) = 1
               /\ calls[r][1].op = rt.op
               /\ calls[r][1].op # Fallback
               /\ calls[r][1].arg = data[r]

\* POST {"index": "task", ...} has been answered by task_agent_with_ability.
C1_Witness ==
    \E r \in Slots :
        /\ pc[r] = "Responding" /\ method[r] = "POST" /\ index[r] = "task"
        /\ calls[r] # <<>> /\ calls[r][1].op = "task_agent_with_ability"
        /\ response[r].status = 200 /\ response[r].tag = "task_agent_with_ability"

AfterGate ==
    {"Decoding", "Decoded", "Routing", "Executing", "FallbackExecuting", "Encoding",
     "Responding", "Invalid", "Failed"}

\* C3: a request reaches Decoding or any later state only after the access gate
\* has accepted its caller; a rejected request ends with 401 and has read no
\* body, built no table and made no call.
C3_AuthorizationBeforeDecoding ==
    \A r \in Slots :
        /\ \A k \in 1 .. Len(steps[r]) :
              steps[r][k] \in AfterGate
                  => /\ caller[r] \in ValidCallers
                     /\ \E j \in 1 .. (k - 1) : steps[r][j] = "Authorized"
        /\ (data[r] # EmptyDict \/ index[r] # "" \/ calls[r] # <<>> \/ options[r] # {})
              => Has(r, "Authorized")
        /\ Has(r, "Rejected")
              => /\ pc[r] = "Rejected"
                 /\ response[r] = HTTPUnauthorized
                 /\ \A k \in 1 .. Len(steps[r]) : steps[r][k] \notin AfterGate
                 /\ data[r] = EmptyDict /\ index[r] = "" /\ calls[r] = <<>>
                 /\ options[r] = {} /\ result[r] = NoResult
        /\ (pc[r] \notin {"Idle", "Received"} /\ caller[r] \notin ValidCallers)
              => pc[r] = "Rejected"

\* A DELETE of an existing agent by a caller without credentials was rejected,
\* and the agent is still there.
C3_Witness ==
    \E r \in Slots :
        /\ pc[r] = "Rejected" /\ caller[r] = "anonymous" /\ method[r] = "DELETE"
        /\ HasIndex(r) /\ body[r].obj["index"] = "agents"
        /\ Entity("agents", "s1", "red") \in store

C6_FallbackOnlyOnRoutingMiss ==
    \A r \in Slots :
        /\ \A k \in 1 .. Len(calls[r]) :
              calls[r][k].op = Fallback => ~InTable(method[r], index[r])
        /\ Has(r, "FallbackExecuting") => ~InTable(method[r], index[r])
        /\ ~(Has(r, "FallbackExecuting") /\ Has(r, "Executing"))
        /\ \A j, k \in 1 .. Len(calls[r]) :
              (calls[r][j].op = Fallback) = (calls[r][k].op = Fallback)

\* A DELETE with index "schedule", registered under PUT only, went to display_objects.
C6_Witness ==
    \E r \in Slots :
        /\ pc[r] = "Responding" /\ method[r] = "DELETE" /\ index[r] = "schedule"
        /\ calls[r] # <<>> /\ calls[r][1].op = Fallback

\* C7 as stated: an authorized request whose body has no 'index', or an index
\* outside the schema mapping, ends with a 400 carrying a per-field error map.
C7_MissingOrUnknownIndexYields400 ==
    \A r \in Slots :
        (pc[r] \in Terminal /\ Has(r, "Decoding") /\ body[r].json
            /\ ("index" \notin DOMAIN body[r].obj \/ body[r].obj["index"] \notin SchemaMapping))
            => /\ response[r].status = 400
               /\ response[r].errors # {}

\* What rest_core does with a body that has no 'index': the KeyError of
\* data.pop('index') is logged and there is no response.
MissingIndexIsLogged ==
    \A r \in Slots :
        (pc[r] \in Terminal /\ Has(r, "Decoding") /\ ~HasIndex(r))
            => /\ pc[r] = "Failed" /\ logged[r]
               /\ response[r] = NoResponse
               /\ calls[r] = <<>>

\* The split the except clauses make between the exceptions that reach them.
SplitOfRaisedExceptions ==
    \A r \in Slots :
        /\ raised[r].kind = "ValidationError"
              => /\ pc[r] = "Invalid" /\ ~logged[r]
                 /\ response[r] = HTTPBadRequest(raised[r].messages)
        /\ raised[r].kind = "Exception"
              => /\ pc[r] = "Failed" /\ logged[r]
                 /\ response[r] = NoResponse
        /\ raised[r].kind = "none"
              => /\ ~logged[r]
                 /\ pc[r] \notin {"Invalid", "Failed"}
                 /\ response[r].status \in {0, 200, 401}

\* C8 as stated: a finished request whose caller was refused has the 401; one
\* that failed validation (a body without the discriminator, or a
\* ValidationError raised on the way) has the 400 with the per-field messages;
\* any other error raised while the handler or the fallback was executing is
\* logged, leaves no response body and is neither a 400 nor a 401.
C8_ErrorPropagationSplit ==
    \A r \in Slots :
        pc[r] \in Terminal
            => /\ caller[r] \notin ValidCallers => response[r] = HTTPUnauthorized
               /\ (Has(r, "Decoding") /\ ~HasIndex(r))
                     => response[r].status = 400 /\ response[r].errors # {}
               /\ raised[r].kind = "ValidationError"
                     => response[r] = HTTPBadRequest(raised[r].messages)
               /\ (Routed(r) /\ raised[r].kind = "Exception")
                     => /\ logged[r]
                        /\ response[r] = NoResponse

\* C9: every request that has built its options table holds the same table as
\* every other request in flight, whatever its caller, its stage or its outcome,
\* namely the table as written; and no (verb, index) pair of a table has two
\* handlers.
C9_RoutingTableSameForAllRequests ==
    \A r \in Slots :
        options[r] # {}
            => /\ options[r] = Table
               /\ \A q \in Slots : options[q] # {} => options[q] = options[r]
               /\ \A a, b \in options[r] :
                     (a.verb = b.verb /\ a.index = b.index) => a = b

\* Two requests of different callers are in flight, both have built their table,
\* and one of them has already ended with an error.
C9_Witness ==
    \E r, q \in Slots :
        /\ r # q
        /\ options[r] # {} /\ options[q] # {}
        /\ caller[r] = "red_user" /\ caller[q] = "blue_user"
        /\ pc[r] \in {"Invalid", "Failed"}
        /\ pc[q] \in {"Executing", "FallbackExecuting"}

Order(s) ==
    CASE s = "Received" -> 1
      [] s = "Authorizing" -> 2
      [] s \in {"Authorized", "Rejected"} -> 3
      [] s = "Decoding" -> 4
      [] s = "Decoded" -> 5
      [] s = "Routing" -> 6
      [] s \in {"Executing", "FallbackExecuting"} -> 7
      [] s = "Encoding" -> 8
      [] s = "Responding" -> 9
      [] OTHER -> 10

\* The states of r are in the dispatcher's order, none twice, and a failure
\* exit is the last of them.
LinearSteps(r) ==
    /\ \A j, k \in 1 .. Len(steps[r]) :
          j < k => /\ Order(steps[r][j]) < Order(steps[r][k])
                   /\ steps[r][j] \notin Terminal
    /\ steps[r] # <<>> => steps[r][1] = "Received" /\ pc[r] = steps[r][Len(steps[r])]
    /\ Len(calls[r]) <= 1

\* The state r was in just before it reached state s.
Before(r, s) ==
    {steps[r][k] : k \in {j \in 1 .. (Len(steps[r]) - 1) : steps[r][j + 1] = s}}

LacksRequired(r) ==
    /\ method[r] = "POST" /\ index[r] \in {"link", "operation", "task"}
    /\ calls[r] # <<>>
    /\ ~(RequiredFields(calls[r][1].op) \subseteq DOMAIN data[r])

\* C12 as stated: a POST to link, operation or task whose payload lacks a field
\* the operation requires ends with a 400 carrying a per-field error map, and is
\* not logged and ended without a body.
C12_MissingFieldYields400 ==
    \A r \in Slots :
        (pc[r] \in Terminal /\ Routed(r) /\ LacksRequired(r))
            => /\ response[r].status = 400
               /\ response[r].errors # {}
               /\ ~logged[r]

\* What rest_core does with such a payload: the TypeError of the call is logged
\* and there is no response.
MissingFieldIsLogged ==
    \A r \in Slots :
        (pc[r] \in Terminal /\ Routed(r) /\ LacksRequired(r))
            => /\ pc[r] = "Failed" /\ logged[r]
               /\ response[r] = NoResponse
               /\ raised[r].kind = "Exception"

\* The result tags the call c can return.
OwnResultTags(c) ==
    IF c.op = Fallback THEN {"listing"}
    ELSE IF c.op \in DeleteOps THEN {"deleted"}
    ELSE IF c.op = "create_schedule" THEN {"created"}
    ELSE {c.op}

----------------------------------------------------------------------------
\* The operations whose lambda passes the local access (PUT operations, PUT schedule).
ScopedOps == {rt.op : rt \in {e \in BuildOptions(<<>>) : e.scoped}}

\* C14: the access scope of a request is the value the permission lookup gave
\* for its caller from the moment it is derived to the end of the request, and
\* it is that value, whatever the payload says, that a scoped handler receives
\* and that the fallback search carries under 'access'.
C14_AccessScopeFixedPerRequest ==
    \A r \in Slots :
        /\ Has(r, "Authorized") /\ pc[r] \in {"Decoding", "Routing", "Executing",
                                              "FallbackExecuting", "Encoding", "Invalid",
                                              "Responding"}
              => access[r] = [access |-> Permissions(caller[r])]
        /\ \A k \in 1..Len(calls[r]) :
              /\ calls[r][k].op \in ScopedOps
                    => calls[r][k].scope = Permissions(caller[r])
              /\ calls[r][k].op = Fallback
                    => /\ "access" \in DOMAIN calls[r][k].arg
                       /\ calls[r][k].arg["access"] = Permissions(caller[r])

\* A blue caller schedules with a payload that names the red scope: the call
\* is made, and answered, with the blue scope.
C14_Witness ==
    \E r \in Slots :
        /\ pc[r] = "Responding" /\ method[r] = "PUT" /\ index[r] = "schedule"
        /\ caller[r] = "blue_user"
        /\ "access" \in DOMAIN data[r] /\ data[r]["access"] = <<"red">>
        /\ Len(calls[r]) = 1 /\ calls[r][1].op = "create_schedule"
        /\ calls[r][1].scope = <<"blue">>
        /\ access[r] = [access |-> <<"blue">>]

----------------------------------------------------------------------------
\* The fields of dictionary d other than key k are those of e, value for value.
SameBut(d, e, k) ==
    /\ (DOMAIN d) \ {k} = (DOMAIN e) \ {k}
    /\ \A f \in (DOMAIN d) \ {k} : d[f] = e[f]

\* C15: once the body is decoded, the payload is the body without 'index' and
\* with every other field as the body has it; a handler is called with that
\* payload, and the fallback search has, scope aside, the fields of that payload.
C15_PayloadIsBodyWithoutIndex ==
    \A r \in Slots :
        Has(r, "Decoded")
            => /\ "index" \notin DOMAIN data[r]
               /\ DOMAIN data[r] \cup {"index"} = DOMAIN body[r].obj
               /\ SameBut(data[r], body[r].obj, "index")
               /\ \A k \in 1..Len(calls[r]) :
                     /\ "index" \notin DOMAIN calls[r][k].arg
                     /\ calls[r][k].op # Fallback => calls[r][k].arg = data[r]
                     /\ calls[r][k].op = Fallback
                           => SameBut(calls[r][k].arg, Merge(data[r], [access |-> <<>>]), "access")

\* A body with two fields besides 'index' has reached a handler, and another
\* like it the fallback.
C15_Witness ==
    \E r \in Slots :
        /\ pc[r] \in {"Executing", "FallbackExecuting"}
        /\ DOMAIN body[r].obj = {"index", "id", "access"}
        /\ Len(calls[r]) = 1
        /\ DOMAIN data[r] = {"id", "access"}
        /\ data[r]["id"] = body[r].obj["id"]
        /\ pc[r] = "Executing" => calls[r][1].arg = data[r]
        /\ pc[r] = "FallbackExecuting" => calls[r][1].arg["id"] = data[r]["id"]

----------------------------------------------------------------------------
\* The terminal outcomes request r shows.
OutcomesOf(r) ==
    {o \in {"sent", "rejected", "invalid", "logged"} :
        \/ o = "sent" /\ response[r].status = 200
        \/ o = "rejected" /\ response[r].status = 401
        \/ o = "invalid" /\ response[r].status = 400
        \/ o = "logged" /\ logged[r] /\ response[r] = NoResponse}

\* A request in flight shows no outcome, a finished one exactly one, and no
\* request goes through a dispatcher state twice.
OneOutcome ==
    \A r \in Slots :
        /\ pc[r] \notin Terminal => OutcomesOf(r) = {}
        /\ pc[r] \in Terminal => Cardinality(OutcomesOf(r)) = 1
        /\ pc[r] = "Responding" => OutcomesOf(r) = {"sent"}
        /\ pc[r] = "Rejected" => OutcomesOf(r) = {"rejected"}
        /\ pc[r] = "Invalid" => OutcomesOf(r) = {"invalid"}
        /\ pc[r] = "Failed" => OutcomesOf(r) = {"logged"}
        /\ pc[r] # "Idle" => LinearSteps(r)

\* C16: every request that arrives reaches a terminal state, whatever the
\* other requests do, as long as its awaited calls return or raise; it then
\* shows exactly one of response sent, 401, 400 and logged error, and on its
\* way it passes no dispatcher state twice.
C16_EveryRequestTerminates ==
    /\ []OneOutcome
    /\ \A r \in Slots : (pc[r] = "Received") ~> (pc[r] \in Terminal)

\* Two requests have finished with different outcomes: one answered, one
\* logged after its call raised.
C16_Witness ==
    \E r, q \in Slots :
        /\ pc[r] = "Responding" /\ OutcomesOf(r) = {"sent"}
        /\ pc[q] = "Failed" /\ OutcomesOf(q) = {"logged"}
        /\ Len(calls[q]) = 1

====
